---- MODULE Spec2Model ----
(***************************************************************************)
(* FlightDataPlotter, plot_params.py: the processing loop (main thread),   *)
(* the plotting loop (ProcessAndPlotLoops.run, second thread), the         *)
(* reprocessing pass (process_data) and the error-message stack.           *)
(***************************************************************************)
EXTENDS Integers, Sequences, FiniteSets, TLC

\* ------------------------------------------------------------------ bounds
MaxGroups == 2      \* AXIS_1 .. AXIS_MaxGroups may appear in a definition file
MaxMtime  == 2      \* modification times of the definition file are 0 .. MaxMtime
MaxPasses == 2      \* passes of process_data in one run of the model
MaxSeries == 2      \* series in the HDF file of one alignment
MaxRate == 3        \* largest frequency of a series
MaxLen == 4         \* largest len(param.array)
MaxBudget == 3      \* largest --superframes-in-memory tried (smallest: -MaxBudget - 1)

\* ------------------------------------------------------------- definitions
RefParam   == "Altitude STD"
ParamNames == {"ALT", "IAS"}
Confs      == {"v1", "v2"}

\* Python's None, and a present value, for the optional fields and locals.
None    == << >>
Some(x) == <<x>>
Val(o)  == o[1]

Range(s) == {s[i] : i \in DOMAIN s}

\* The list Python builds from a set: some fixed order of its elements.
ListOf(S) == CHOOSE q \in [1..Cardinality(S) -> S] : Range(q) = S

\* The record of one parameter in the Parameters section: its name and its
\* definition; ALT is edited between two versions.
ParamItems == { [name |-> "ALT", conf |-> c] : c \in Confs } \cup { [name |-> "IAS", conf |-> "v1"] }

DistinctNames(ps) == \A i, j \in DOMAIN ps : i # j => ps[i].name # ps[j].name

\* The Parameters sections: every ordered choice of distinct names and records.
ParamSections ==
    { ps \in UNION { [1..n -> ParamItems] : n \in 0..Cardinality(ParamNames) } : DistinctNames(ps) }

\* The list of AXIS_k: one name list per group index.
GroupList(k) == IF k % 2 = 1 THEN <<"ALT">> ELSE <<"IAS", "ALT">>

GroupSections == { [k \in S |-> GroupList(k)] : S \in SUBSET (1..MaxGroups) }

\* A definition file as configobj reads it: whether it parses, which sections
\* it has, the Parameters section (ordered) and the Parameter Group section.
Unparsable == [parses |-> FALSE, sections |-> {}, Parameters |-> << >>, groups |-> << >>]

Definitions ==
    { Unparsable } \cup
    { [parses |-> TRUE, sections |-> {"Parameters"} \cup (IF DOMAIN g = {} THEN {} ELSE {"Parameter Group"}),
       Parameters |-> ps, groups |-> g] : ps \in ParamSections, g \in GroupSections } \cup
    { [parses |-> TRUE, sections |-> (IF DOMAIN g = {} THEN {} ELSE {"Parameter Group"}),
       Parameters |-> << >>, groups |-> g] : g \in GroupSections }

\* The definitions the watched file takes in the two-thread specification.
WatchedDefs ==
    { d \in Definitions : /\ d.Parameters \in {<< >>, <<[name |-> "ALT", conf |-> "v1"]>>}
                          /\ "Parameters" \in d.sections => d.Parameters # << >>
                          /\ DOMAIN d.groups \subseteq {1}
                          /\ d.parses => d.sections # {} }

\* Truth value of a dict: non-empty.
Truthy(cfg) == cfg # None /\ Val(cfg).sections # {}

HasParam(d, n) == \E i \in DOMAIN d.Parameters : d.Parameters[i].name = n
ParamConf(d, n) == LET i == CHOOSE j \in DOMAIN d.Parameters : d.Parameters[j].name = n
                   IN d.Parameters[i].conf

\* ------------------------------------------------------------ process_data
\* for param_name, param_conf in config['Parameters'].iteritems(): compare with
\* the last configuration's record; a missing section or name is a KeyError.
RECURSIVE DiffLoop(_, _, _)
DiffLoop(items, last, changed) ==
    IF items = << >> THEN [changed |-> changed, raised |-> "none"]
    ELSE LET it == Head(items) IN
         IF "Parameters" \notin last.sections \/ ~HasParam(last, it.name)
         THEN [changed |-> changed, raised |-> "KeyError"]
         ELSE DiffLoop(Tail(items), last,
                       IF it.conf # ParamConf(last, it.name) THEN changed \cup {it.name} ELSE changed)

\* A detection that starts each pass from an empty set.
DetectChangedFresh(config, last_cfg, changed) ==
    IF Truthy(last_cfg)
    THEN IF "Parameters" \notin config.sections
         THEN [changed |-> {}, raised |-> "KeyError"]
         ELSE DiffLoop(config.Parameters, Val(last_cfg), {})
    ELSE [changed |-> {}, raised |-> "none"]

\* if self._last_config: for ... in config['Parameters'].iteritems(): ...
DetectChanged(config, last_cfg, changed) ==
    IF Truthy(last_cfg)
    THEN IF "Parameters" \notin config.sections
         THEN [changed |-> changed, raised |-> "KeyError"]
         ELSE DiffLoop(config.Parameters, Val(last_cfg), changed)
    ELSE [changed |-> changed, raised |-> "none"]

\* axes[key] = value on a dict
Put(dict, key, value) == (key :> value) @@ dict

\* while True: axes[group_index + axis_offset] = config['Parameter Group']['AXIS_%d'];
\* the KeyError of a missing section or group ends the loop.
RECURSIVE ReadGroups(_, _, _, _)
ReadGroups(config, ax, axis_offset, group_index) ==
    IF "Parameter Group" \in config.sections /\ group_index \in DOMAIN config.groups
    THEN ReadGroups(config, Put(ax, group_index + axis_offset, config.groups[group_index]),
                    axis_offset, group_index + 1)
    ELSE ax

\* axis_offset taken as if the changed-parameters axis were always there.
AxisOffsetFixed(ax) == 2

\* axis_offset = len(axes)
AxisOffset(ax) == Cardinality(DOMAIN ax)

\* The changed-parameters axis added whenever the set is non-empty, the
\* plot_changed option not looked at.
BuildAxesOptionIgnored(config, changed, plot_chg) ==
    LET first == 1 :> <<RefParam>>
        withChanged == IF changed # {} THEN Put(first, 2, ListOf(changed)) ELSE first
    IN ReadGroups(config, withChanged, AxisOffset(withChanged), 1)

\* Lines 256-270: axis 1, the changed-parameters axis, then the groups.
BuildAxes(config, changed, plot_chg) ==
    LET first == 1 :> <<RefParam>>
        withChanged == IF plot_chg /\ changed # {} THEN Put(first, 2, ListOf(changed)) ELSE first
    IN ReadGroups(config, withChanged, AxisOffset(withChanged), 1)

Axis1Missing(ax) == Cardinality(DOMAIN ax) = 1

ErrParse   == "Error while parsing LFL!"
ErrAxis1   == "AXIS_1 group missing"
ErrProcess == "Processing failed!"

\* An error message: its title and its text; the text is that of pass n.
ErrorMessage(title, n) == <<title, n>>

\* Lines 242-281: load the configuration, detect changes, build the axes.
Prepare(d, last_cfg, changed, plot_chg, n) ==
    IF ~d.parses
    THEN [raised |-> "ValueError", ret |-> None, last_config |-> last_cfg,
          changed_params |-> changed, queued |-> <<ErrorMessage(ErrParse, n)>>]
    ELSE LET diff == DetectChanged(d, last_cfg, changed) IN
         IF diff.raised # "none"
         THEN [raised |-> diff.raised, ret |-> None, last_config |-> last_cfg,
               changed_params |-> diff.changed, queued |-> << >>]
         ELSE LET ax == BuildAxes(d, diff.changed, plot_chg) IN
              IF Axis1Missing(ax)
              THEN [raised |-> "ValueError", ret |-> None, last_config |-> Some(d),
                    changed_params |-> diff.changed, queued |-> <<ErrorMessage(ErrAxis1, n)>>]
              ELSE [raised |-> "none", ret |-> Some(ax), last_config |-> Some(d),
                    changed_params |-> diff.changed, queued |-> << >>]

\* param_names = set(itertools.chain.from_iterable(axes.values()))
NamesOf(ax) == UNION { Range(ax[k]) : k \in DOMAIN ax }


\* The whole of process_data as one function of its inputs: the definition
\* read, the object's fields, and what parse_lfl (co) and create_hdf (cr) do.
ProcessData(d, last_cfg, changed, plot_chg, co, cr, n) ==
    LET p == Prepare(d, last_cfg, changed, plot_chg, n)
        base == [raised |-> p.raised, ret |-> p.ret, last_config |-> p.last_config,
                 changed_params |-> p.changed_params, queued |-> p.queued,
                 dialog |-> None, wrote |-> "no"]
    IN IF p.raised # "none" THEN base
       ELSE IF co = "err"
            THEN [base EXCEPT !.raised = "ValueError", !.ret = None,
                              !.dialog = Some(ErrorMessage(ErrParse, n))]
       ELSE IF cr = "err"
            THEN [base EXCEPT !.raised = "ValueError", !.ret = None,
                              !.queued = <<ErrorMessage(ErrProcess, n)>>, !.wrote = "partial"]
       ELSE [base EXCEPT !.wrote = "complete"]

\* ------------------------------------------------------------ validate_args
\* --superframes-in-memory is an int; the budgets tried.
Budgets == (0 - MaxBudget - 1)..MaxBudget

\* The command line as validate_args sees it: whether lfl_path and data_path are
\* files, whether -o was given, and the three options it passes on.
ArgSets == [lfl_isfile : BOOLEAN, data_isfile : BOOLEAN, output_path : BOOLEAN,
            superframes_in_memory : Budgets, frame_doubled : BOOLEAN,
            plot_changed : BOOLEAN]

\* The defaults of create_parser, with both paths naming files.
DefaultArgs(plot_chg) ==
    [lfl_isfile |-> TRUE, data_isfile |-> TRUE, output_path |-> FALSE,
     superframes_in_memory |-> 0 - 1, frame_doubled |-> FALSE, plot_changed |-> plot_chg]

\* A validation that only refuses what is below -1.
BudgetAtLeastMinusOne(n) == n >= 0 - 1

\* not (args.superframes_in_memory == 0 or args.superframes_in_memory < -1)
BudgetAccepted(n) == ~(n = 0 \/ n < 0 - 1)

\* validate_args: sys.exit(1) or the tuple it returns.
ValidateArgs(a) ==
    IF ~a.lfl_isfile THEN [exit |-> TRUE, ret |-> None]
    ELSE IF ~a.data_isfile THEN [exit |-> TRUE, ret |-> None]
    ELSE IF ~BudgetAccepted(a.superframes_in_memory) THEN [exit |-> TRUE, ret |-> None]
    ELSE [exit |-> FALSE,
          ret  |-> Some([output_path |-> IF a.output_path THEN "given" ELSE "mkstemp",
                         superframes_in_memory |-> a.superframes_in_memory,
                         frame_doubled |-> a.frame_doubled,
                         plot_changed |-> a.plot_changed])]

\* ------------------------------------------------------------------- state
VARIABLES
    lfl,             \* content of the definition file at lfl_path
    lfl_mtime,       \* os.path.getmtime(lfl_path)
    hdf,             \* the file at output_path (self._hdf_path)
    plot_changed,    \* args.plot_changed
    changed_params,  \* self._changed_params
    error_messages,  \* self.__error_messages
    exit_loop,       \* self.exit_loop
    ready_to_plot,   \* self._ready_to_plot
    axes,            \* self._axes
    last_config,     \* self._last_config
    wpc,             \* position of the main thread in process_loop / process_data
    prev_mtime,      \* process_loop: prev_mtime
    mtime,           \* process_loop: mtime
    config,          \* process_data: config
    p_axes,          \* process_data: axes (the value it returns)
    outcome,         \* what the running pass raised: "none" or the exception
    w_dialog,        \* the dialog open in the main thread
    rpc,             \* position of the second thread in run / plot_parameters
    error_message,   \* run: error_message
    plot_axes,       \* plot_parameters: axes
    passes,          \* number of calls of process_data so far
    queued,          \* number of calls of _queue_error_message so far
    published,       \* number of ready_to_plot.set() by process_loop so far
    rendered,        \* number of calls of plot_parameters so far
    displayed,       \* texts of the messages run has shown
    main_pc,         \* position of main before the loops start
    args,            \* the parsed command line (argparse namespace)
    plot_args,       \* what validate_args returned
    series,          \* plot_parameters: params, each series' frequency and len(array)
    aligned          \* plot_parameters: len(array) of each series after the truncation

vars == <<lfl, lfl_mtime, hdf, plot_changed, changed_params, error_messages, exit_loop,
          ready_to_plot, axes, last_config, wpc, prev_mtime, mtime, config, p_axes,
          outcome, w_dialog, rpc, error_message, plot_axes, passes, queued, published,
          rendered, displayed, main_pc, args, plot_args, series, aligned>>

envVars    == <<lfl, lfl_mtime>>
objVars    == <<changed_params, last_config>>
watchVars  == <<wpc, prev_mtime, mtime, config, p_axes, outcome, w_dialog, passes, queued>>
renderVars == <<rpc, error_message, plot_axes, rendered, displayed>>
\* What neither loop assigns: the command line and the series of one alignment.
fixedVars  == <<plot_changed, main_pc, args, plot_args, series, aligned>>

\* The file at output_path: what create_hdf left there.
HdfNone        == [state |-> "none", names |-> {}]
HdfPartial     == [state |-> "partial", names |-> {}]
HdfOf(names)   == [state |-> "complete", names |-> names]

\* ProcessAndPlotLoops.__init__, and the locals of both loops before they start.
InitObject ==
    /\ hdf = HdfNone
    /\ changed_params = {}
    /\ error_messages = << >>
    /\ exit_loop = FALSE
    /\ ready_to_plot = FALSE
    /\ axes = None
    /\ last_config = None
    /\ wpc = "poll" /\ prev_mtime = None /\ mtime = None
    /\ config = None /\ p_axes = None /\ outcome = "none" /\ w_dialog = None
    /\ rpc = "top" /\ error_message = None /\ plot_axes = None
    /\ passes = 0 /\ queued = 0 /\ published = 0 /\ rendered = 0 /\ displayed = {}

\* main has validated a default command line and started the second thread;
\* no alignment has run.
LoopsStarted ==
    /\ main_pc = "running"
    /\ args = DefaultArgs(plot_changed)
    /\ plot_args = ValidateArgs(args).ret
    /\ series = << >>
    /\ aligned = None

Init ==
    /\ lfl \in WatchedDefs
    /\ lfl_mtime \in 0..1
    /\ plot_changed \in BOOLEAN
    /\ InitObject
    /\ LoopsStarted

\* ------------------------------------------------ process_loop (main thread)
\* not prev_mtime
Falsy(prev) == prev = None \/ Val(prev) = 0

\* if not prev_mtime or mtime > prev_mtime
NeedsProcessing(prev, m) == Falsy(prev) \/ m > Val(prev)

\* mtime = os.path.getmtime(lfl_path) and the test on it.
W_Poll ==
    /\ wpc = "poll"
    /\ NeedsProcessing(prev_mtime, lfl_mtime) => passes < MaxPasses
    /\ mtime' = Some(lfl_mtime)
    /\ wpc' = IF NeedsProcessing(prev_mtime, lfl_mtime) THEN "is_set" ELSE "sleep"
    /\ UNCHANGED <<envVars, objVars, renderVars, hdf, fixedVars, error_messages, exit_loop,
                   ready_to_plot, axes, prev_mtime, config, p_axes, outcome, w_dialog,
                   passes, queued, published>>

\* time.sleep(1)
W_Sleep ==
    /\ wpc = "sleep"
    /\ wpc' = "poll"
    /\ UNCHANGED <<envVars, objVars, renderVars, hdf, fixedVars, error_messages, exit_loop,
                   ready_to_plot, axes, prev_mtime, mtime, config, p_axes, outcome, w_dialog,
                   passes, queued, published>>

\* if self._ready_to_plot.is_set():
W_IsSet ==
    /\ wpc = "is_set"
    /\ wpc' = IF ready_to_plot THEN "clear" ELSE "load"
    /\ UNCHANGED <<envVars, objVars, renderVars, hdf, fixedVars, error_messages, exit_loop,
                   ready_to_plot, axes, prev_mtime, mtime, config, p_axes, outcome, w_dialog,
                   passes, queued, published>>

\* process_loop without its clear of the flag.
W_ClearSkipped ==
    /\ wpc = "clear"
    /\ wpc' = "load"
    /\ UNCHANGED <<envVars, objVars, renderVars, hdf, fixedVars, error_messages, exit_loop,
                   ready_to_plot, axes, prev_mtime, mtime, config, p_axes, outcome, w_dialog,
                   passes, queued, published>>

\* self._ready_to_plot.clear()
W_Clear ==
    /\ wpc = "clear"
    /\ ready_to_plot' = FALSE
    /\ wpc' = "load"
    /\ UNCHANGED <<envVars, objVars, renderVars, hdf, fixedVars, error_messages, exit_loop,
                   axes, prev_mtime, mtime, config, p_axes, outcome, w_dialog,
                   passes, queued, published>>

\* function(): process_data up to the call of parse_lfl.
W_Load ==
    /\ wpc = "load"
    /\ LET r == Prepare(lfl, last_config, changed_params, plot_changed, passes + 1) IN
        /\ config' = Some(lfl)
        /\ last_config' = r.last_config
        /\ changed_params' = r.changed_params
        /\ error_messages' = error_messages \o r.queued
        /\ queued' = queued + Len(r.queued)
        /\ p_axes' = r.ret
        /\ outcome' = r.raised
        /\ wpc' = IF r.raised = "none" THEN "compile" ELSE "except"
    /\ passes' = passes + 1
    /\ UNCHANGED <<envVars, renderVars, hdf, fixedVars, exit_loop, ready_to_plot, axes,
                   prev_mtime, mtime, w_dialog, published>>

\* parse_lfl(...): returns, or raises and show_error_dialog is called.
W_Compile(co) ==
    /\ wpc = "compile"
    /\ IF co = "ok"
       THEN /\ wpc' = "create"
            /\ UNCHANGED w_dialog
       ELSE /\ wpc' = "dialog"
            /\ w_dialog' = Some(ErrorMessage(ErrParse, passes))
    /\ UNCHANGED <<envVars, objVars, renderVars, hdf, fixedVars, error_messages, exit_loop,
                   ready_to_plot, axes, prev_mtime, mtime, config, p_axes, outcome,
                   passes, queued, published>>

\* tkMessageBox.showerror returns when the user closes the dialog; raise ValueError.
W_CloseDialog ==
    /\ wpc = "dialog"
    /\ w_dialog' = None
    /\ p_axes' = None
    /\ outcome' = "ValueError"
    /\ wpc' = "except"
    /\ UNCHANGED <<envVars, objVars, renderVars, hdf, fixedVars, error_messages, exit_loop,
                   ready_to_plot, axes, prev_mtime, mtime, config, passes, queued, published>>

\* create_hdf(...) starts writing output_path.
W_CreateStart ==
    /\ wpc = "create"
    /\ hdf' = HdfPartial
    /\ wpc' = "creating"
    /\ UNCHANGED <<envVars, objVars, renderVars, fixedVars, error_messages, exit_loop,
                   ready_to_plot, axes, prev_mtime, mtime, config, p_axes, outcome, w_dialog,
                   passes, queued, published>>

\* create_hdf(...) returns, or raises and the error is queued; return axes.
W_CreateEnd(cr) ==
    /\ wpc = "creating"
    /\ IF cr = "ok"
       THEN /\ hdf' = HdfOf(NamesOf(Val(p_axes)))
            /\ wpc' = "assign"
            /\ UNCHANGED <<error_messages, queued, p_axes, outcome>>
       ELSE /\ error_messages' = Append(error_messages, ErrorMessage(ErrProcess, passes))
            /\ queued' = queued + 1
            /\ p_axes' = None
            /\ outcome' = "ValueError"
            /\ wpc' = "except"
            /\ UNCHANGED hdf
    /\ UNCHANGED <<envVars, objVars, renderVars, fixedVars, exit_loop,
                   ready_to_plot, axes, prev_mtime, mtime, config, w_dialog,
                   passes, published>>

\* self._axes = function()
W_Assign ==
    /\ wpc = "assign"
    /\ axes' = p_axes
    /\ wpc' = "set"
    /\ UNCHANGED <<envVars, objVars, renderVars, hdf, fixedVars, error_messages, exit_loop,
                   ready_to_plot, prev_mtime, mtime, config, p_axes, outcome, w_dialog,
                   passes, queued, published>>

\* else: self._ready_to_plot.set(); finally: prev_mtime = mtime
W_Set ==
    /\ wpc = "set"
    /\ ready_to_plot' = TRUE
    /\ published' = published + 1
    /\ prev_mtime' = mtime
    /\ wpc' = "poll"
    /\ UNCHANGED <<envVars, objVars, renderVars, hdf, fixedVars, error_messages, exit_loop,
                   axes, mtime, config, p_axes, outcome, w_dialog, passes, queued>>

\* main: finally: if not args.output_path: os.remove(hdf_path)
RemoveOutput(rm) == IF rm THEN HdfNone ELSE hdf

\* The except clauses of process_loop and its finally: prev_mtime = mtime.  An
\* exception that is neither ValueError nor ProcessError leaves process_loop and
\* main (rm: the output file is a temporary one).
W_Except(rm) ==
    /\ wpc = "except"
    /\ prev_mtime' = mtime
    /\ CASE outcome = "ValueError" ->
              /\ wpc' = "poll"
              /\ UNCHANGED <<exit_loop, hdf>>
         [] outcome = "ProcessError" ->
              /\ exit_loop' = TRUE
              /\ wpc' = "done"
              /\ hdf' = RemoveOutput(rm)
         [] OTHER ->
              /\ wpc' = "done"
              /\ hdf' = RemoveOutput(rm)
              /\ UNCHANGED exit_loop
    /\ UNCHANGED <<envVars, objVars, renderVars, fixedVars, error_messages,
                   ready_to_plot, axes, mtime, config, p_axes, outcome, w_dialog,
                   passes, queued, published>>

\* main: except KeyboardInterrupt: process_thread.exit_loop.set(), then finally.
Interrupt(rm) ==
    /\ wpc # "done"
    /\ exit_loop' = TRUE
    /\ wpc' = "done"
    /\ w_dialog' = None
    /\ hdf' = RemoveOutput(rm)
    /\ UNCHANGED <<envVars, objVars, renderVars, fixedVars, error_messages,
                   ready_to_plot, axes, prev_mtime, mtime, config, p_axes, outcome,
                   passes, queued, published>>

\* ------------------------------------------------------ run (second thread)
\* run without the test of exit_loop.
R_TopUnchecked ==
    /\ rpc = "top"
    /\ rpc' = "get_error"
    /\ UNCHANGED <<envVars, objVars, watchVars, hdf, fixedVars, error_messages, exit_loop,
                   ready_to_plot, axes, error_message, plot_axes, rendered, displayed,
                   published>>

\* if self.exit_loop.is_set(): return
R_Top ==
    /\ rpc = "top"
    /\ rpc' = IF exit_loop THEN "done" ELSE "get_error"
    /\ UNCHANGED <<envVars, objVars, watchVars, hdf, fixedVars, error_messages, exit_loop,
                   ready_to_plot, axes, error_message, plot_axes, rendered, displayed,
                   published>>

\* pop(0): the oldest message instead of the newest.
PopFirst(messages) == 1

\* self.__error_messages.pop() removes the last message.
PopIndex(messages) == Len(messages)

\* _get_error_message: under the lock, pop a message or return None.
GetErrorMessage(messages) ==
    IF messages # << >>
    THEN [message |-> Some(messages[PopIndex(messages)]),
          rest |-> [i \in 1..(Len(messages) - 1) |->
                       IF i < PopIndex(messages) THEN messages[i] ELSE messages[i + 1]]]
    ELSE [message |-> None, rest |-> messages]

\* error_message = self._get_error_message(); if error_message: show_error_dialog
R_GetError ==
    /\ rpc = "get_error"
    /\ LET got == GetErrorMessage(error_messages) IN
        /\ error_message' = got.message
        /\ error_messages' = got.rest
        /\ IF got.message # None
           THEN /\ rpc' = "dialog"
                /\ displayed' = displayed \cup {Val(got.message)}
           ELSE /\ rpc' = "is_set"
                /\ UNCHANGED displayed
    /\ UNCHANGED <<envVars, objVars, watchVars, hdf, fixedVars, exit_loop,
                   ready_to_plot, axes, plot_axes, rendered, published>>

\* Where run goes once show_error_dialog has returned: continue.
AfterDialog == "top"

\* The user closes the error dialog.
R_CloseDialog ==
    /\ rpc = "dialog"
    /\ rpc' = AfterDialog
    /\ UNCHANGED <<envVars, objVars, watchVars, hdf, fixedVars, error_messages, exit_loop,
                   ready_to_plot, axes, error_message, plot_axes, rendered, displayed,
                   published>>

\* if self._ready_to_plot.is_set():
R_IsSet ==
    /\ rpc = "is_set"
    /\ rpc' = IF ready_to_plot THEN "clear" ELSE "sleep"
    /\ UNCHANGED <<envVars, objVars, watchVars, hdf, fixedVars, error_messages, exit_loop,
                   ready_to_plot, axes, error_message, plot_axes, rendered, displayed,
                   published>>

\* time.sleep(1)
R_Sleep ==
    /\ rpc = "sleep"
    /\ rpc' = "top"
    /\ UNCHANGED <<envVars, objVars, watchVars, hdf, fixedVars, error_messages, exit_loop,
                   ready_to_plot, axes, error_message, plot_axes, rendered, displayed,
                   published>>

\* run without its clear of the flag.
R_ClearKept ==
    /\ rpc = "clear"
    /\ rpc' = "plot"
    /\ UNCHANGED <<envVars, objVars, watchVars, hdf, fixedVars, error_messages, exit_loop,
                   ready_to_plot, axes, error_message, plot_axes, rendered, displayed,
                   published>>

\* self._ready_to_plot.clear()
R_Clear ==
    /\ rpc = "clear"
    /\ ready_to_plot' = FALSE
    /\ rpc' = "plot"
    /\ UNCHANGED <<envVars, objVars, watchVars, hdf, fixedVars, error_messages, exit_loop,
                   axes, error_message, plot_axes, rendered, displayed, published>>

\* plot_parameters(self._hdf_path, self._axes): the call, with self._axes read.
R_Plot ==
    /\ rpc = "plot"
    /\ plot_axes' = axes
    /\ rendered' = rendered + 1
    /\ rpc' = "reading"
    /\ UNCHANGED <<envVars, objVars, watchVars, hdf, fixedVars, error_messages, exit_loop,
                   ready_to_plot, axes, error_message, displayed, published>>

\* Whether plot_parameters finds every parameter of its axes in the file.
Plottable(file, ax) == file.state = "complete" /\ NamesOf(Val(ax)) \subseteq file.names

\* plot_parameters reads the file and builds the figure up to plt.show(); a
\* missing parameter is a KeyError that ends run.  What a file that is being
\* written or was removed gives is not determined (shown).
R_Read(shown) ==
    /\ rpc = "reading"
    /\ rpc' = IF hdf.state = "complete"
              THEN IF Plottable(hdf, plot_axes) THEN "show" ELSE "crashed"
              ELSE IF shown THEN "show" ELSE "crashed"
    /\ UNCHANGED <<envVars, objVars, watchVars, hdf, fixedVars, error_messages, exit_loop,
                   ready_to_plot, axes, error_message, plot_axes, rendered, displayed,
                   published>>

\* The user closes the plot window: plt.show() returns.
R_ClosePlot ==
    /\ rpc = "show"
    /\ rpc' = "top"
    /\ UNCHANGED <<envVars, objVars, watchVars, hdf, fixedVars, error_messages, exit_loop,
                   ready_to_plot, axes, error_message, plot_axes, rendered, displayed,
                   published>>

\* ------------------------------------------------------------- environment
\* The user saves the definition file: new content, later modification time.
Edit(d, t) ==
    /\ t > lfl_mtime
    /\ lfl' = d
    /\ lfl_mtime' = t
    /\ UNCHANGED <<objVars, watchVars, renderVars, hdf, fixedVars, error_messages,
                   exit_loop, ready_to_plot, axes, published>>

WatchStep ==
    \/ W_Poll
    \/ W_Sleep
    \/ W_IsSet
    \/ W_Clear
    \/ W_Load
    \/ \E co \in {"ok", "err"} : W_Compile(co)
    \/ W_CloseDialog
    \/ W_CreateStart
    \/ \E cr \in {"ok", "err"} : W_CreateEnd(cr)
    \/ W_Assign
    \/ W_Set
    \/ \E rm \in BOOLEAN : W_Except(rm)

RenderStep ==
    \/ R_Top
    \/ R_GetError
    \/ R_CloseDialog
    \/ R_IsSet
    \/ R_Sleep
    \/ R_Clear
    \/ R_Plot
    \/ \E shown \in BOOLEAN : R_Read(shown)
    \/ R_ClosePlot

Next ==
    \/ WatchStep
    \/ RenderStep
    \/ \E rm \in BOOLEAN : Interrupt(rm)
    \/ \E d \in WatchedDefs, t \in 0..MaxMtime : Edit(d, t)

Spec == Init /\ [][Next]_vars

\* Both threads are scheduled again and again, and whoever sits in front of a
\* dialog or a plot window closes it in the end (W_CloseDialog, R_CloseDialog and
\* R_ClosePlot are steps of the two threads).
Fairness == WF_vars(WatchStep) /\ WF_vars(RenderStep)

\* A run on a definition file with an ordinary modification time.
InitFair ==
    /\ lfl \in WatchedDefs
    /\ lfl_mtime = 1
    /\ plot_changed \in BOOLEAN
    /\ InitObject
    /\ LoopsStarted

SpecFair == InitFair /\ [][Next]_vars /\ Fairness

\* ------------------------------------------- process_data, pass after pass
\* One whole call of process_data on the definition d that the file holds, as
\* process_loop makes them one after the other on the same object; a call that
\* raised KeyError was the last one.
Reprocess(d, co, cr) ==
    /\ passes < MaxPasses
    /\ outcome # "KeyError"
    /\ LET r == ProcessData(d, last_config, changed_params, plot_changed, co, cr, passes + 1) IN
        /\ lfl' = d
        /\ config' = Some(d)
        /\ last_config' = r.last_config
        /\ changed_params' = r.changed_params
        /\ error_messages' = error_messages \o r.queued
        /\ queued' = queued + Len(r.queued)
        /\ w_dialog' = r.dialog
        /\ p_axes' = r.ret
        /\ outcome' = r.raised
        /\ hdf' = CASE r.wrote = "complete" -> HdfOf(NamesOf(Val(r.ret)))
                    [] r.wrote = "partial" -> HdfPartial
                    [] OTHER -> hdf
    /\ passes' = passes + 1
    /\ UNCHANGED <<lfl_mtime, renderVars, fixedVars, exit_loop, ready_to_plot, axes,
                   wpc, prev_mtime, mtime, published>>

InitPass ==
    /\ lfl \in Definitions
    /\ lfl_mtime = 1
    /\ plot_changed \in BOOLEAN
    /\ InitObject
    /\ LoopsStarted

NextPass == \E d \in Definitions, co \in {"ok", "err"}, cr \in {"ok", "err"} : Reprocess(d, co, cr)

SpecPass == InitPass /\ [][NextPass]_vars

\* ------------------------------------- process_data, on an object in any state
\* The object after earlier passes: self._last_config is None (and nothing was
\* detected yet) or any definition that parsed, self._changed_params any set of
\* names; the file holds any definition and is processed again and again.
InitMid ==
    /\ lfl \in Definitions
    /\ lfl_mtime = 1
    /\ plot_changed \in BOOLEAN
    /\ last_config \in {None} \cup {Some(d) : d \in {e \in Definitions : e.parses}}
    /\ changed_params \in SUBSET ParamNames
    /\ last_config = None => changed_params = {}
    /\ hdf = HdfNone
    /\ error_messages = << >>
    /\ exit_loop = FALSE
    /\ ready_to_plot = FALSE
    /\ axes = None
    /\ wpc = "poll" /\ prev_mtime = None /\ mtime = None
    /\ config = None /\ p_axes = None /\ outcome = "none" /\ w_dialog = None
    /\ rpc = "top" /\ error_message = None /\ plot_axes = None
    /\ passes = 0 /\ queued = 0 /\ published = 0 /\ rendered = 0 /\ displayed = {}
    /\ LoopsStarted

NextMid == \E co \in {"ok", "err"}, cr \in {"ok", "err"} : Reprocess(lfl, co, cr)

SpecMid == InitMid /\ [][NextMid]_vars

\* --------------------------------------------- process_data, the axes it builds
\* Parameter Group sections over one index more, so that a group can follow a
\* missing one (AXIS_1 and AXIS_3 without AXIS_2).
GroupSectionsGap == { [k \in S |-> GroupList(k)] : S \in SUBSET (1..(MaxGroups + 1)) }

GappedDefinitions ==
    { [parses |-> TRUE, sections |-> {"Parameters"} \cup (IF DOMAIN g = {} THEN {} ELSE {"Parameter Group"}),
       Parameters |-> ps, groups |-> g] : ps \in ParamSections, g \in GroupSectionsGap }

\* The object after earlier passes, the last of them on the content the file
\* still has: any accumulated set of changed names.
InitAxes ==
    /\ lfl \in GappedDefinitions
    /\ lfl_mtime = 1
    /\ plot_changed \in BOOLEAN
    /\ last_config = Some(lfl)
    /\ changed_params \in SUBSET ParamNames
    /\ hdf = HdfNone
    /\ error_messages = << >>
    /\ exit_loop = FALSE
    /\ ready_to_plot = FALSE
    /\ axes = None
    /\ wpc = "poll" /\ prev_mtime = None /\ mtime = None
    /\ config = None /\ p_axes = None /\ outcome = "none" /\ w_dialog = None
    /\ rpc = "top" /\ error_message = None /\ plot_axes = None
    /\ passes = 0 /\ queued = 0 /\ published = 0 /\ rendered = 0 /\ displayed = {}
    /\ LoopsStarted

NextAxes == \E co \in {"ok", "err"}, cr \in {"ok", "err"} : Reprocess(lfl, co, cr)

SpecAxes == InitAxes /\ [][NextAxes]_vars

\* ------------------------------------------- plot_parameters, the truncation
\* params.iteritems(): the series of the file in the order the dict yields them,
\* each with its frequency and the length of its array.
SeriesSets ==
    UNION { [1..n -> [rate : 1..MaxRate, len : 0..MaxLen]] : n \in 0..MaxSeries }

\* What hdfaccess hands out as param.frequency is not fixed by this code: Python
\* ints, for which / is the floor division of Python 2, or floats.
RateKinds == {"int", "float"}

Min(a, b) == IF a < b THEN a ELSE b

\* min_freq = min(min_freq, param.frequency) over the file
MinFreq(ps) == CHOOSE m \in Range([i \in DOMAIN ps |-> ps[i].rate]) :
                   \A i \in DOMAIN ps : m <= ps[i].rate

\* if param.frequency == min_freq: param_min_freq_len = len(param.array)
\* (the last such series of the iteration wins)
MinFreqLen(ps) ==
    LET last == CHOOSE i \in DOMAIN ps :
                    /\ ps[i].rate = MinFreq(ps)
                    /\ \A j \in DOMAIN ps : ps[j].rate = MinFreq(ps) => j <= i
    IN ps[last].len

\* array_len = param_min_freq_len * (param.frequency / min_freq) on ints: the
\* quotient is taken first and is the floor division of Python 2.
ArrayLen(min_len, rate, min_freq) == min_len * (rate \div min_freq)

\* The same on floats, as the slice param.array[:array_len] takes it: the integer
\* part of min_len * rate / min_freq.
ExactLen(min_len, rate, min_freq) == (min_len * rate) \div min_freq

\* Lines 124-128 for one series: the length of its array afterwards (a slice
\* bound past the end leaves the array as it is).
Truncate(p, min_len, min_freq, kind) ==
    IF kind = "int"
    THEN Min(p.len, ArrayLen(min_len, p.rate, min_freq))
    ELSE Min(p.len, ExactLen(min_len, p.rate, min_freq))

\* Lines 106-128: NameError on param_min_freq_len when the file holds no series.
Align(ps, kind) ==
    IF ps = << >>
    THEN [raised |-> TRUE, min_len |-> 0, lens |-> << >>]
    ELSE [raised |-> FALSE,
          min_len |-> MinFreqLen(ps),
          lens |-> [i \in DOMAIN ps |-> Truncate(ps[i], MinFreqLen(ps), MinFreq(ps), kind)]]

P_Align(kind) ==
    /\ aligned = None
    /\ aligned' = Some(Align(series, kind))
    /\ UNCHANGED <<envVars, objVars, watchVars, renderVars, hdf, plot_changed, main_pc, args,
                   plot_args, series, error_messages, exit_loop, ready_to_plot, axes,
                   published>>

\* Any HDF file, handed to plot_parameters once.
InitAlign ==
    /\ series \in SeriesSets
    /\ aligned = None
    /\ lfl \in {d \in WatchedDefs : d.parses}
    /\ lfl_mtime = 1
    /\ plot_changed = FALSE
    /\ main_pc = "running"
    /\ args = DefaultArgs(plot_changed)
    /\ plot_args = ValidateArgs(args).ret
    /\ InitObject

NextAlign == \E kind \in RateKinds : P_Align(kind)

SpecAlign == InitAlign /\ [][NextAlign]_vars

\* ----------------------------------------------- main, up to the first pass
\* plot_args = validate_args(lfl_path, data_path, args)
M_Validate ==
    /\ main_pc = "validate"
    /\ LET r == ValidateArgs(args) IN
        /\ plot_args' = r.ret
        /\ main_pc' = IF r.exit THEN "exit1" ELSE "start"
    /\ UNCHANGED <<envVars, objVars, watchVars, renderVars, hdf, plot_changed, args, series,
                   aligned, error_messages, exit_loop, ready_to_plot, axes, published>>

\* process_thread = ProcessAndPlotLoops(hdf_path, args.plot_changed); process_thread.start()
M_Start ==
    /\ main_pc = "start"
    /\ main_pc' = "running"
    /\ UNCHANGED <<envVars, objVars, watchVars, renderVars, hdf, plot_changed, args, plot_args,
                   series, aligned, error_messages, exit_loop, ready_to_plot, axes, published>>

\* Any command line; the object as __init__ leaves it once main constructs it.
InitArgs ==
    /\ lfl \in WatchedDefs
    /\ lfl_mtime = 1
    /\ args \in ArgSets
    /\ plot_changed = args.plot_changed
    /\ main_pc = "validate"
    /\ plot_args = None
    /\ series = << >>
    /\ aligned = None
    /\ InitObject

\* main, then both loops until process_data has been called once.
NextArgs ==
    \/ M_Validate
    \/ M_Start
    \/ main_pc = "running" /\ W_Poll
    \/ main_pc = "running" /\ W_IsSet
    \/ main_pc = "running" /\ W_Load
    \/ main_pc = "running" /\ R_Top
    \/ main_pc = "running" /\ R_GetError
    \/ main_pc = "running" /\ R_IsSet
    \/ main_pc = "running" /\ R_Sleep

SpecArgs == InitArgs /\ [][NextArgs]_vars

\* ------------------------------------------------------------------ claims
\* The positions of process_loop from the test on mtime up to the call of
\* process_data, and those inside process_data.
AboutToProcess == {"is_set", "clear", "load"}
PassInProgress == {"load", "compile", "dialog", "create", "creating"}

\* C1: process_data is invoked for a poll exactly when the mtime read is the
\* first one observed or strictly greater than the last one observed; on a poll
\* whose mtime equals the last one observed the loop sleeps instead.
C1_OncePerChange ==
    /\ wpc \in AboutToProcess => (prev_mtime = None \/ Val(mtime) > Val(prev_mtime))
    /\ wpc = "sleep" => (prev_mtime # None /\ Val(mtime) <= Val(prev_mtime))

\* C2: the plotting loop never starts more renders than the processing loop has
\* published assignments.
C2_RendersBounded == rendered <= published

C2_Witness == rendered = 2 /\ published = 2 /\ rpc = "show"

\* C3: the plotting loop is never about to read, or reading, the assignment and
\* the series store while a pass of process_data is in progress.
C3_NoReadDuringPass == rpc \in {"plot", "reading"} => wpc \notin PassInProgress

\* C4: the thread running process_loop never has a blocking dialog open.
C4_NoDialogInWatchLoop == w_dialog = None /\ wpc # "dialog"

\* The messages of pass n: those pending on the stack and those already shown.
PendingOfPass(n)   == { i \in DOMAIN error_messages : error_messages[i][2] = n }
DisplayedOfPass(n) == { e \in displayed : e[2] = n }

\* C5: a pass that fails with a recoverable error has pushed exactly one
\* (title, message) pair onto the error stack by the time it is abandoned.
C5_OneErrorPerFailure ==
    (wpc = "except" /\ outcome = "ValueError") =>
        Cardinality(PendingOfPass(passes)) + Cardinality(DisplayedOfPass(passes)) = 1

\* C6: after a pass failed with a recoverable error, the mtime that triggered it
\* is the last one observed, the loop goes on, and process_data runs again only
\* for an mtime strictly greater than it.
C6_NoRetryUntilChange ==
    outcome = "ValueError" =>
        /\ wpc = "poll" => prev_mtime = mtime
        /\ wpc \in AboutToProcess => Val(mtime) > Val(prev_mtime)
        /\ wpc = "sleep" => Val(mtime) <= Val(prev_mtime)
        /\ wpc = "done" => exit_loop

\* C7: from the failure of a pass until a later pass succeeds the ready flag is
\* unset, whatever the plotting loop does and whether or not an earlier
\* assignment was still waiting to be rendered; and no step of a failed pass
\* changes the assignment slot.
C7_FailedPassNotReady ==
    /\ [](outcome # "none" => ~ready_to_plot)
    /\ [][outcome' # "none" => axes' = axes]_vars

C7_Witness ==
    /\ outcome = "ValueError" /\ wpc = "poll"
    /\ published = 1 /\ rendered = 0 /\ axes # None

\* C8: a pass over a definition that parses and has no AXIS_1 group raises the
\* missing-AXIS_1 error, queued under that title, and returns no assignment
\* (stated for the passes that get as far as reading the groups: those that the
\* comparison of the Parameters sections did not end with a KeyError).
C8_NoAxis1AlwaysFails ==
    (/\ passes > 0 /\ Val(config).parses /\ 1 \notin DOMAIN Val(config).groups
     /\ outcome # "KeyError") =>
        /\ outcome = "ValueError"
        /\ p_axes = None
        /\ \E i \in PendingOfPass(passes) : error_messages[i][1] = ErrAxis1

\* C9: the assignment a successful pass returns has the axis indices 1..n, and
\* its axis 1 is non-empty and begins with the reference parameter.
C9_AxesContiguous ==
    p_axes # None =>
        LET ax == Val(p_axes) IN
        /\ DOMAIN ax = 1..Cardinality(DOMAIN ax)
        /\ Len(ax[1]) >= 1
        /\ ax[1][1] = RefParam

C9_Witness ==
    /\ passes = 2 /\ outcome = "none" /\ p_axes # None
    /\ changed_params # {} /\ plot_changed
    /\ Cardinality(DOMAIN Val(p_axes)) = 4

\* C10: when run asks for an error and one is pending, it shows exactly one, the
\* most recently queued of those pending, and goes back to the top of the loop
\* without plotting or clearing the ready flag; no message is shown twice and
\* every message queued is either still pending or has been shown.
C10_ErrorsShownInStackOrder ==
    /\ [][(rpc = "get_error" /\ rpc' # rpc /\ error_messages # << >>) =>
            /\ rpc' = "dialog"
            /\ error_message' = Some(error_messages[Len(error_messages)])
            /\ \A i \in DOMAIN error_messages : error_messages[i][2] <= Val(error_message')[2]
            /\ Len(error_messages') = Len(error_messages) - 1
            /\ Val(error_message') \notin displayed]_vars
    /\ [][(rpc = "dialog" /\ rpc' # rpc) =>
            /\ rpc' = "top"
            /\ ready_to_plot' = ready_to_plot
            /\ rendered' = rendered]_vars
    /\ [](/\ \A i, j \in DOMAIN error_messages : i # j => error_messages[i] # error_messages[j]
          /\ \A i \in DOMAIN error_messages : error_messages[i] \notin displayed
          /\ Len(error_messages) + Cardinality(displayed) = queued)

C10_Witness ==
    /\ rpc = "dialog" /\ error_message # None
    /\ Val(error_message)[2] = 2
    /\ error_messages # << >> /\ error_messages[1][2] = 1

C11_ExitObserved ==
    /\ [](exit_loop => wpc = "done")
    /\ [][(exit_loop /\ rpc = "top" /\ rpc' # "top") => rpc' = "done"]_vars
    /\ [][rpc = "done" => rpc' = "done"]_vars
    /\ (exit_loop ~> (wpc = "done" /\ rpc \in {"done", "crashed"}))

C11_Witness ==
    /\ exit_loop
    /\ rpc = "done"
    /\ wpc = "done"
    /\ passes > 0

\* C12: process_loop is over only with exit_loop set (the fatal error of a pass, or
\* the interrupt): no other exception of process_data ends it, whatever the
\* definition file holds.
C12_OnlyFatalEndsLoop == wpc = "done" => exit_loop

\* C13: an exception raised in plot_parameters ends only that render: while
\* exit_loop is unset run is never ended by it, so that it goes on to show later
\* errors and later assignments.
C13_RenderFailureSurvived == ~(rpc = "crashed" /\ ~exit_loop)

\* C15: a pass of process_data that fails, at whatever step, leaves
\* self._last_config as it was: only a pass that succeeds replaces it.
C15_LastConfigOnlyOnSuccess ==
    [][(passes' = passes + 1 /\ outcome' # "none") => last_config' = last_config]_vars

\* C16: a pass with no previous definition detects nothing; a pass whose
\* definition is identical to the previous one detects nothing; and
\* self._changed_params only grows from pass to pass.
C16_ChangeDetection ==
    [][passes' = passes + 1 =>
         /\ last_config = None => changed_params' = {}
         /\ (last_config # None /\ config' = last_config)
                => changed_params' = changed_params
         /\ changed_params \subseteq changed_params']_vars

C16_Witness ==
    /\ passes = 2
    /\ changed_params = {"ALT"}
    /\ last_config = config
    /\ HasParam(Val(config), "IAS")
    /\ outcome = "none"

\* C17: in a pass with a previous definition, every name of the Parameters
\* section whose record differs from the previous record of that name, or that the
\* previous definition does not have, is in self._changed_params afterwards, and
\* the change detection raises nothing.
C17_AddedOrChangedDetected ==
    [][(passes' = passes + 1 /\ Truthy(last_config)
            /\ "Parameters" \in Val(config').sections)
          => LET cur == Val(config').Parameters
                 last == Val(last_config)
             IN /\ \A i \in DOMAIN cur :
                      ("Parameters" \notin last.sections
                          \/ ~HasParam(last, cur[i].name)
                          \/ cur[i].conf # ParamConf(last, cur[i].name))
                      => cur[i].name \in changed_params'
                /\ outcome' # "KeyError"]_vars

\* Whether process_data put the changed-parameters axis in, and the offset at
\* which the groups then start.
C18_HasChangedAxis == plot_changed /\ changed_params # {}
C18_Offset == IF C18_HasChangedAxis THEN 2 ELSE 1

\* The groups AXIS_1..AXIS_m of a definition that come before any missing index.
C18_LeadingGroups(cfg) == {k \in DOMAIN cfg.groups : \A i \in 1..k : i \in DOMAIN cfg.groups}

\* C18 as amended: after a successful pass the axes are axis 1, then (with
\* plot_changed and a non-empty accumulated set) axis 2 holding that set, then the
\* groups AXIS_1..AXIS_m that come before the first missing index, AXIS_k at index
\* k + 2 with the changed axis and at k + 1 without it; nothing else is in it.
C18_AxesLayout ==
    (passes > 0 /\ outcome = "none") =>
        LET ax == Val(p_axes)
            cfg == Val(config)
            lead == C18_LeadingGroups(cfg)
        IN /\ DOMAIN ax = 1..(C18_Offset + Cardinality(lead))
           /\ ax[1] = <<RefParam>>
           /\ C18_HasChangedAxis => Range(ax[2]) = changed_params
           /\ \A k \in lead : ax[k + C18_Offset] = cfg.groups[k]

C18_Witness ==
    /\ passes > 0 /\ outcome = "none"
    /\ C18_HasChangedAxis
    /\ DOMAIN Val(config).groups = {1, 2}
    /\ DOMAIN Val(p_axes) = 1..4

\* C18 as stated: after a successful pass every group AXIS_k of the definition is
\* at index k + 2 (with the changed axis, which holds the accumulated set) or
\* k + 1 (without it).
C18_EveryGroupPlaced ==
    (passes > 0 /\ outcome = "none") =>
        LET ax == Val(p_axes)
            cfg == Val(config)
        IN /\ C18_HasChangedAxis => (2 \in DOMAIN ax /\ Range(ax[2]) = changed_params)
           /\ \A k \in DOMAIN cfg.groups :
                 /\ k + C18_Offset \in DOMAIN ax
                 /\ ax[k + C18_Offset] = cfg.groups[k]

\* C19: for a file with at least one series the truncation raises nothing, pads
\* no series, and cuts every series longer than
\* floor(L_min * rate / min_rate) to exactly that length, L_min being the length
\* of the series of lowest frequency.
C19_TruncatedToExpected ==
    (aligned # None /\ series # << >>) =>
        LET a == Val(aligned) IN
        /\ ~a.raised
        /\ \A i \in DOMAIN series :
              LET expected_len == ExactLen(a.min_len, series[i].rate, MinFreq(series)) IN
              /\ a.lens[i] <= series[i].len
              /\ series[i].len > expected_len => a.lens[i] = expected_len

\* process_loop has published the axes of a successful pass and sleeps on a file
\* that has not changed since that pass read its modification time.
C20_PublishedAndStable ==
    /\ ready_to_plot
    /\ ~exit_loop
    /\ wpc \in {"poll", "sleep"}
    /\ prev_mtime = Some(lfl_mtime)

\* C20: under fair scheduling of both threads, with every dialog and plot window
\* closed in the end, an assignment published for a file that stays unchanged is
\* rendered in the end (run clears the flag and calls plot_parameters), unless
\* exit_loop is set or the file changes after all.
C20_PublishedIsRendered ==
    C20_PublishedAndStable ~> (rpc = "plot" \/ exit_loop \/ prev_mtime # Some(lfl_mtime))

====
